---------------------------- MODULE Spec2Model ----------------------------
(***************************************************************************)
(* A model of pharaglow/features.py: the geometric extraction functions of *)
(* the pharynx pipeline (sortSkeleton, cropcenterline, centerline,         *)
(* normalVecCl, widthPharynx, scalarWidth, intensityAlongCenterline,       *)
(* straightenPharynx).                                                     *)
(*                                                                         *)
(* The module holds no state between calls, so a behaviour is one caller   *)
(* invoking one entry point: Init draws the entry point and its arguments, *)
(* the actions run the function bodies, and `out` holds what the caller    *)
(* gets back (a value, or the exception that was raised).                  *)
(*                                                                         *)
(* Arithmetic is exact.  Coordinates and polynomial coefficients are       *)
(* integers; a quotient by a Euclidean norm is kept as numerator and       *)
(* squared norm, a square root as its radicand, and a float 0/0 as NaN.    *)
(***************************************************************************)
EXTENDS Integers, Sequences, FiniteSets

\* ------------------------------------------------------------------ bounds

\* Longest contour handed to cropcenterline / widthPharynx.
MaxContour == 2
\* Most parameter values handed to normalVecCl / centerline.
MaxXs == 2
\* Largest skeleton point count nP handed to cropcenterline.
MaxNP == 2
\* Most true pixels of a skeleton handed to sortSkeleton.
MaxSkel == 3
\* Longest polyline handed to intensityAlongCenterline.
MaxPoly == 3
\* Largest half-width and sample count handed to straightenPharynx.
MaxWidth == 2
MaxNPts == 3

\* np.linspace(-0.25*nP, 1.25*nP, 100): the number of samples.
NumSamples == 100

\* Contour / polyline points, skeleton pixels, parameter values and fitted
\* models the caller may pass.
ContourPts == {<<0, 0>>, <<1, 1>>, <<3, 1>>}
SkelPixels == {<<0, 0>>, <<0, 1>>, <<1, 0>>, <<1, 1>>}
TValues == {0, 1, 2}
\* (c0, c1, c2): constant, lines, and parabolas whose derivative vanishes
\* at t = 0 and at t = 1.
Polys == {<<0, 0, 0>>, <<0, 1, 0>>, <<1, -2, 0>>, <<0, 0, 1>>, <<1, -2, 1>>, <<2, 1, -1>>}

\* ----------------------------------------------------------------- helpers

Abs(n) == IF n < 0 THEN -n ELSE n

RECURSIVE SumTo(_, _)
\* f[1] + ... + f[n]
SumTo(f, n) == IF n = 0 THEN 0 ELSE SumTo(f, n - 1) + f[n]

RECURSIVE Flatten(_)
\* np.concatenate of a list of 1-D arrays
Flatten(ss) == IF ss = << >> THEN << >> ELSE Head(ss) \o Flatten(Tail(ss))

\* Sequences over S of length lo..hi
SeqsOf(S, lo, hi) == UNION {[1..n -> S] : n \in lo..hi}

\* The float NaN (0.0/0.0, or any arithmetic on a NaN).
NaN == [nan |-> TRUE]

\* np.sqrt: the square root of n, kept as its radicand; NaN below zero.
Sqrt(n) == IF n < 0 THEN NaN ELSE [sqrtOf |-> n]

\* v / |v| for an integer vector v whose squared norm is n2:
\* (x, y)/sqrt(n2), and 0/0 = NaN in both components when the norm is 0.
DivByNorm(v, n2) == IF n2 = 0 THEN NaN ELSE [x |-> v[1], y |-> v[2], n2 |-> n2]

\* np.linalg.norm squared
Norm2(v) == v[1] * v[1] + v[2] * v[2]

\* --------------------------------------------------------------- variables

VARIABLES
  fn,    \* the entry point the caller invokes
  pc,    \* where the call stands
  args,  \* the arguments of the call
  out    \* what the call has produced so far

vars == <<fn, pc, args, out>>

\* ------------------------------------------------------------ sortSkeleton

\* np.where(skeleton): the coordinates of the true pixels, row-major.
WherePts(skeleton) ==
  LET RECURSIVE Ordered(_)
      Ordered(S) ==
        IF S = {} THEN << >>
        ELSE LET p == CHOOSE q \in S :
                        \A r \in S : q[1] < r[1] \/ (q[1] = r[1] /\ q[2] <= r[2])
             IN <<p>> \o Ordered(S \ {p})
  IN Ordered(skeleton)

\* The permutations of 0..n-1
LeafOrders(n) ==
  {s \in [1..n -> 0..(n - 1)] : \A i, j \in 1..n : i # j => s[i] # s[j]}

\* scipy's linkage(...) followed by leaves_list(Z).  linkage computes the
\* condensed distance matrix and asks for its number of observations, which
\* raises ValueError on an empty matrix: that is what zero points and one
\* point both give.  With two or more points the leaves come back as a
\* permutation of 0..n-1 (which one is scipy's choice).
sortSkeleton(skeleton) ==
  LET pts == WherePts(skeleton)
  IN  IF Len(pts) < 2
      THEN {[status |-> "raised", error |-> "ValueError"]}
      ELSE {[status |-> "returned", order |-> s] : s \in LeafOrders(Len(pts))}

SortSkeleton ==
  /\ fn = "sortSkeleton" /\ pc = "call"
  /\ out' \in sortSkeleton(args.skeleton)
  /\ pc' = "done"
  /\ UNCHANGED <<fn, args>>

\* ----------------------------------------- pharynxFunc, centerline, normals

\* pharynxFunc(x, *p, deriv): p is (c0, c1, c2)
pharynxFunc(x, p, deriv) ==
  IF deriv = 1 THEN p[2] + 2 * p[3] * x
  ELSE p[1] + p[2] * x + p[3] * x * x

\* centerline(poptX, poptY, xs): one (x, y) per parameter value
centerline(poptX, poptY, xs) ==
  [k \in 1..Len(xs) |-> <<pharynxFunc(xs[k], poptX, 0), pharynxFunc(xs[k], poptY, 0)>>]

\* Mutant of normalVecCl: the columns are swapped but the first is not
\* negated, which gives (dy, dx).
normalVecCl_NoFlip(poptX, poptY, xs) ==
  LET dCl0 == [k \in 1..Len(xs) |->
                 <<pharynxFunc(xs[k], poptX, 1), pharynxFunc(xs[k], poptY, 1)>>]
      dCl1 == [k \in 1..Len(xs) |-> <<dCl0[k][2], dCl0[k][1]>>]
      dClnorm == [k \in 1..Len(xs) |-> Norm2(dCl1[k])]
  IN  [k \in 1..Len(xs) |-> DivByNorm(dCl1[k], dClnorm[k])]

\* normalVecCl(poptX, poptY, xs)
normalVecCl(poptX, poptY, xs) ==
  LET \* np.c_[dx, dy]
      dCl0 == [k \in 1..Len(xs) |->
                 <<pharynxFunc(xs[k], poptX, 1), pharynxFunc(xs[k], poptY, 1)>>]
      \* dCl[:, ::-1]
      dCl1 == [k \in 1..Len(xs) |-> <<dCl0[k][2], dCl0[k][1]>>]
      \* dCl[:, 0] *= -1
      dCl2 == [k \in 1..Len(xs) |-> <<-dCl1[k][1], dCl1[k][2]>>]
      dClnorm == [k \in 1..Len(xs) |-> Norm2(dCl2[k])]
  IN  [k \in 1..Len(xs) |-> DivByNorm(dCl2[k], dClnorm[k])]

\* The caller evaluates the fitted model: centerline and its normals.
NormalVecCl ==
  /\ fn = "widthPharynx" /\ pc = "call"
  /\ out' = [status |-> "returned",
             cl     |-> centerline(args.poptX, args.poptY, args.xs),
             dCl    |-> normalVecCl(args.poptX, args.poptY, args.xs)]
  /\ pc' = "normals"
  /\ UNCHANGED <<fn, args>>

\* ------------------------------------------------------------ widthPharynx

\* np.sum(u * d, axis=-1) of two normalised vectors: NaN when either is,
\* else (u.d)/(|u||d|), kept as a/sqrt(b).
Dot(u, d) ==
  IF u = NaN \/ d = NaN THEN NaN
  ELSE [a |-> u.x * d.x + u.y * d.y, b |-> u.n2 * d.n2]

\* sign(a) * a^2
SignedSq(a) == IF a < 0 THEN -(a * a) ELSE a * a

\* s < t for two scores a/sqrt(b) that are not NaN
Less(s, t) == SignedSq(s.a) * t.b < SignedSq(t.a) * s.b

\* The scores of centerline point j against every contour point:
\* angles[:, j] of
\*   vCCl = cl[np.newaxis, :] - contour[:, np.newaxis]
\*   vCCl = vCCl / norm(vCCl, axis=2)[:, :, np.newaxis]
\*   angles = np.sum(vCCl * dCl, axis=-1)
Angles(cl, contour, dCl, j) ==
  [i \in 1..Len(contour) |->
     LET vCCl == <<cl[j][1] - contour[i][1], cl[j][2] - contour[i][2]>>
         vCClnorm == Norm2(vCCl)
     IN  Dot(DivByNorm(vCCl, vCClnorm), dCl[j])]

RECURSIVE ArgScan(_, _, _, _)
\* numpy's scan for the extremum of col, at element i with running best
\* index b: the best is replaced only by a strictly better element, and a
\* NaN, once met, stays.
ArgScan(col, b, i, wantMax) ==
  IF i > Len(col) THEN b
  ELSE LET better == IF wantMax THEN Less(col[b], col[i]) ELSE Less(col[i], col[b])
           nb == IF col[b] = NaN THEN b
                 ELSE IF col[i] = NaN THEN i
                 ELSE IF better THEN i
                 ELSE b
       IN  ArgScan(col, nb, i + 1, wantMax)

RECURSIVE ArgScanLast(_, _, _)
\* Mutant scan: an element that ties the running minimum replaces it.
ArgScanLast(col, b, i) ==
  IF i > Len(col) THEN b
  ELSE LET nb == IF col[b] = NaN THEN b
                 ELSE IF col[i] = NaN THEN i
                 ELSE IF ~Less(col[b], col[i]) THEN i
                 ELSE b
       IN  ArgScanLast(col, nb, i + 1)

\* Mutant of ArgMin: among tying minima the last index is taken.
ArgMin_Last(col) == ArgScanLast(col, 1, 2)

\* np.argmin / np.argmax of a column (1-based)
ArgMin(col) == ArgScan(col, 1, 2, FALSE)
ArgMax(col) == ArgScan(col, 1, 2, TRUE)

\* widthPharynx(cl, contour, dCl)
widthPharynx(cl, contour, dCl) ==
  LET c1 == [j \in 1..Len(cl) |-> ArgMin(Angles(cl, contour, dCl, j))]
      c2 == [j \in 1..Len(cl) |-> ArgMax(Angles(cl, contour, dCl, j))]
  IN  [j \in 1..Len(cl) |-> <<contour[c1[j]], contour[c2[j]]>>]

WidthPharynx ==
  /\ fn = "widthPharynx" /\ pc = "normals"
  /\ out' = [status |-> "returned", cl |-> out.cl, dCl |-> out.dCl,
             widths |-> widthPharynx(out.cl, args.contour, out.dCl)]
  /\ pc' = "widths"
  /\ UNCHANGED <<fn, args>>

\* ------------------------------------------------------------- scalarWidth

\* Mutant of scalarWidth: the differences are summed without being squared.
scalarWidth_NoSquare(widths) ==
  [j \in 1..Len(widths) |->
     LET diff == <<widths[j][2][1] - widths[j][1][1], widths[j][2][2] - widths[j][1][2]>>
     IN  <<Sqrt(diff[1] + diff[2])>>]

\* scalarWidth(widths): np.diff along the endpoint axis leaves one row of
\* length 1 per segment, holding sqrt(dx^2 + dy^2).
scalarWidth(widths) ==
  [j \in 1..Len(widths) |->
     LET diff == <<widths[j][2][1] - widths[j][1][1], widths[j][2][2] - widths[j][1][2]>>
     IN  <<Sqrt(diff[1] * diff[1] + diff[2] * diff[2])>>]

ScalarWidth ==
  /\ fn = "widthPharynx" /\ pc = "widths"
  /\ out' = [status |-> "returned", cl |-> out.cl, dCl |-> out.dCl,
             widths |-> out.widths, swidths |-> scalarWidth(out.widths)]
  /\ pc' = "done"
  /\ UNCHANGED <<fn, args>>

\* ---------------------------------------------------------- cropcenterline

\* The denominator of the samples of np.linspace(-0.25*nP, 1.25*nP, 100):
\* sample i is nP*(6*i - 99)/396.
XsDen == 4 * (NumSamples - 1)

\* Mutant of XsNum: the range ends at 1.0*nP instead of 1.25*nP.
XsNum_ShortRange(nP, i) == nP * (5 * i - (NumSamples - 1))

\* xs[i] of np.linspace(-0.25*nP, 1.25*nP, 100), i in 0..99, as a numerator
\* over XsDen.
XsNum(nP, i) == nP * (6 * i - (NumSamples - 1))

\* pharynxFunc at the rational x = num/den: the numerator of the value over
\* den^2 (over den for the derivative).
pharynxFuncQ(num, den, p, deriv) ==
  IF deriv = 1 THEN p[2] * den + 2 * p[3] * num
  ELSE p[1] * den * den + p[2] * num * den + p[3] * num * num

\* x^2 + y^2 for |x|, |y| < 2^28, as three digits to the base 2^14 (most
\* significant first): the squares themselves exceed 32-bit integers.
Base == 2 ^ 14
SqSum(x, y) ==
  LET xh == Abs(x) \div Base
      xl == Abs(x) % Base
      yh == Abs(y) \div Base
      yl == Abs(y) % Base
      lo == xl * xl + yl * yl
      mid == 2 * (xh * xl + yh * yl) + (lo \div Base)
      hi == xh * xh + yh * yh + (mid \div Base)
  IN  <<hi, mid % Base, lo % Base>>

\* a < b for two such numbers
BigLess(a, b) ==
  \/ a[1] < b[1]
  \/ a[1] = b[1] /\ a[2] < b[2]
  \/ a[1] = b[1] /\ a[2] = b[2] /\ a[3] < b[3]

\* distClC[c][i]: the squared distance of sample i of the centerline to
\* contour point c (scaled by XsDen^4).
DistClC(poptX, poptY, contour, nP, c, i) ==
  LET t == XsNum(nP, i)
      sc == XsDen * XsDen
  IN  SqSum(pharynxFuncQ(t, XsDen, poptX, 0) - sc * contour[c][1],
            pharynxFuncQ(t, XsDen, poptY, 0) - sc * contour[c][2])

RECURSIVE MinOverContour(_, _, _, _, _, _)
\* np.min(distClC, axis=0)[i], scanning contour points c..Len(contour)
MinOverContour(poptX, poptY, contour, nP, c, i) ==
  LET here == DistClC(poptX, poptY, contour, nP, c, i)
  IN  IF c = Len(contour) THEN here
      ELSE LET rest == MinOverContour(poptX, poptY, contour, nP, c + 1, i)
           IN  IF BigLess(rest, here) THEN rest ELSE here

RECURSIVE DistSeq(_, _, _, _, _, _)
\* np.min(distClC, axis=0) for the samples lo..hi, as a sequence
DistSeq(poptX, poptY, contour, nP, lo, hi) ==
  IF lo = hi THEN <<MinOverContour(poptX, poptY, contour, nP, 1, lo)>>
  ELSE LET mid == (lo + hi) \div 2
       IN  DistSeq(poptX, poptY, contour, nP, lo, mid)
             \o DistSeq(poptX, poptY, contour, nP, mid + 1, hi)

RECURSIVE MinFrom(_, _, _, _)
\* The smallest of d[lo..hi], leaving out the positions in skip (a number
\* above every distance when nothing is left)
MinFrom(d, lo, hi, skip) ==
  IF lo = hi THEN (IF lo \in skip THEN <<4 * Base * Base, 0, 0>> ELSE d[lo])
  ELSE LET mid == (lo + hi) \div 2
           l == MinFrom(d, lo, mid, skip)
           r == MinFrom(d, mid + 1, hi, skip)
       IN  IF BigLess(r, l) THEN r ELSE l

\* The positions outside skip that hold the smallest distance outside skip
Nearest(d, skip) ==
  LET m == MinFrom(d, 1, Len(d), skip)
  IN  {i \in (1..Len(d)) \ skip : d[i] = m}

\* Mutant of ArgSortFirstTwo: start and end are unpacked the wrong way round.
ArgSortFirstTwo_Swapped(d) ==
  LET first == Nearest(d, {})
  IN  IF Cardinality(first) >= 2
      THEN {<<s - 1, e - 1>> : <<s, e>> \in {p \in first \X first : p[1] # p[2]}}
      ELSE {<<e - 1, s - 1>> : <<s, e>> \in first \X Nearest(d, first)}

\* np.argsort(d)[:2]: the first two indices of a sort of d.  The default
\* sort is not stable, so among equal distances any order may come out.
ArgSortFirstTwo(d) ==
  LET first == Nearest(d, {})
  IN  IF Cardinality(first) >= 2
      THEN {<<s - 1, e - 1>> : <<s, e>> \in {p \in first \X first : p[1] # p[2]}}
      ELSE {<<s - 1, e - 1>> : <<s, e>> \in first \X Nearest(d, first)}

\* cropcenterline(poptX, poptY, contour, nP): every (xs[start], xs[end]) the
\* call may return, as numerators over XsDen.
cropcenterline(poptX, poptY, contour, nP) ==
  LET d == DistSeq(poptX, poptY, contour, nP, 0, NumSamples - 1)
  IN  {[status |-> "returned", tStart |-> XsNum(nP, se[1]), tEnd |-> XsNum(nP, se[2])] :
         se \in ArgSortFirstTwo(d)}

CropCenterline ==
  /\ fn = "cropcenterline" /\ pc = "call"
  /\ out' \in cropcenterline(args.poptX, args.poptY, args.contour, args.nP)
  /\ pc' = "done"
  /\ UNCHANGED <<fn, args>>

\* ------------------------------------------------ intensityAlongCenterline

\* The least m with m*m >= n: np.ceil(np.hypot(..)) of a squared length n
CeilSqrt(n) == CHOOSE m \in 0..n : m * m >= n /\ \A k \in 0..(m - 1) : k * k < n

\* The number of samples skimage's profile_line takes from src to dst:
\* ceil(hypot(d_row, d_col) + 1)
ProfileLen(src, dst) == CeilSqrt(Norm2(<<dst[1] - src[1], dst[2] - src[2]>>)) + 1

\* profile_line(im, src, dst, linewidth): the samples lie evenly from src to
\* dst, both ends included.  A sample is kept as the place it is read at
\* (numerators over den) and the line width it is averaged over.
profile_line(src, dst, linewidth) ==
  LET L == ProfileLen(src, dst)
      den == IF L = 1 THEN 1 ELSE L - 1
  IN  [k \in 1..L |->
         [at  |-> <<src[1] * den + (k - 1) * (dst[1] - src[1]),
                    src[2] * den + (k - 1) * (dst[2] - src[2])>>,
          den |-> den,
          linewidth |-> linewidth]]

\* Mutant of intensityAlongCenterline: the first sample of every segment
\* after the first is dropped, so no joint is sampled twice.
intensityAlongCenterline_Dedup(cl, kwargs) ==
  IF "width" \in DOMAIN kwargs /\ Len(kwargs.width) < Len(cl) - 1
  THEN [status |-> "raised", error |-> "IndexError"]
  ELSE IF Len(cl) < 2
  THEN [status |-> "raised", error |-> "ValueError"]
  ELSE [status |-> "returned",
        profile |-> Flatten([i \in 1..(Len(cl) - 1) |->
          LET pr == profile_line(cl[i], cl[i + 1],
                                 IF "width" \in DOMAIN kwargs THEN kwargs.width[i] ELSE 1)
          IN  IF i = 1 THEN pr ELSE Tail(pr)])]

\* intensityAlongCenterline(im, cl, **kwargs).  w[i] raises IndexError when
\* the width sequence is shorter than the number of segments, and
\* np.concatenate raises ValueError when there is no segment.
intensityAlongCenterline(cl, kwargs) ==
  IF "width" \in DOMAIN kwargs
  THEN LET w == kwargs.width
       IN  IF Len(w) < Len(cl) - 1
           THEN [status |-> "raised", error |-> "IndexError"]
           ELSE IF Len(cl) < 2
           THEN [status |-> "raised", error |-> "ValueError"]
           ELSE [status |-> "returned",
                 profile |-> Flatten([i \in 1..(Len(cl) - 1) |->
                                        profile_line(cl[i], cl[i + 1], w[i])])]
  ELSE IF Len(cl) < 2
       THEN [status |-> "raised", error |-> "ValueError"]
       ELSE [status |-> "returned",
             profile |-> Flatten([i \in 1..(Len(cl) - 1) |->
                                    profile_line(cl[i], cl[i + 1], 1)])]

IntensityAlongCenterline ==
  /\ fn = "intensityAlongCenterline" /\ pc = "call"
  /\ out' = intensityAlongCenterline(args.cl, args.kwargs)
  /\ pc' = "done"
  /\ UNCHANGED <<fn, args>>

\* ------------------------------------------------------- straightenPharynx

\* np.linspace(xstart, xend, nPts) for a span the nPts - 1 steps divide
linspace(xstart, xend, nPts) ==
  [j \in 1..nPts |->
     IF nPts = 1 THEN xstart
     ELSE xstart + (j - 1) * ((xend - xstart) \div (nPts - 1))]

\* Mutant of InterpGrid: the grid includes its right end.
InterpGrid_Closed(width) == [m \in 1..(2 * width + 1) |-> -width + (m - 1)]

\* np.arange(-width, width)
InterpGrid(width) == [m \in 1..(2 * width) |-> -width + (m - 1)]

\* The lengths len(ky) profile_line may give the scan across sample d of
\* the normals, from clF + width*dCl to clF - width*dCl.  The segment is
\* 2*width long; along an axis that is exact, otherwise rounding may put
\* the computed length just above 2*width and add a sample.
KymoLens(d, width) ==
  IF d.x = 0 \/ d.y = 0 THEN {2 * width + 1} ELSE {2 * width + 1, 2 * width + 2}

\* np.interp(np.arange(-width, width), np.arange(-len(ky)/2, len(ky)/2), ky)
\* for scan j of length L: one value per grid point x, read from ky at the
\* index x + L/2 (kept doubled), between two samples when that is no integer.
Interp(j, L, width) ==
  LET x == InterpGrid(width)
  IN  [m \in 1..Len(x) |-> [ky |-> j, at2 |-> 2 * x[m] + L]]

\* straightenPharynx(im, xstart, xend, poptX, poptY, width, nPts): every
\* outcome of the call.  Where a normal is NaN the end points of its scan are
\* NaN, and profile_line raises ValueError converting the NaN length to int.
straightenPharynx(xstart, xend, poptX, poptY, width, nPts) ==
  LET xn == linspace(xstart, xend, nPts)
      clF == centerline(poptX, poptY, xn)
      dCl == normalVecCl(poptX, poptY, xn)
  IN  IF \E j \in 1..nPts : dCl[j] = NaN
      THEN {[status |-> "raised", error |-> "ValueError"]}
      ELSE {[status |-> "returned",
             array |-> [j \in 1..nPts |-> Interp(j, lens[j], width)]] :
              lens \in {l \in [1..nPts -> (2 * width + 1)..(2 * width + 2)] :
                          \A j \in 1..nPts : l[j] \in KymoLens(dCl[j], width)}}

StraightenPharynx ==
  /\ fn = "straightenPharynx" /\ pc = "call"
  /\ out' \in straightenPharynx(args.xstart, args.xend, args.poptX, args.poptY,
                                args.width, args.nPts)
  /\ pc' = "done"
  /\ UNCHANGED <<fn, args>>

\* ------------------------------------------------------------ the calls

SkeletonArgs ==
  {[skeleton |-> S] : S \in {T \in SUBSET SkelPixels : Cardinality(T) <= MaxSkel}}

\* A model is constant when both axes have no linear and no quadratic term.
IsConstant(px, py) == px[2] = 0 /\ px[3] = 0 /\ py[2] = 0 /\ py[3] = 0

\* cropcenterline's arguments.  The constant model is left to nP = 0, where
\* the samples coincide in the same way.
CropArgs ==
  {a \in [poptX : Polys, poptY : Polys,
          contour : SeqsOf(ContourPts, 1, MaxContour), nP : 0..MaxNP] :
     ~IsConstant(a.poptX, a.poptY)}

\* The keyword arguments: none, or a width per segment (one short, exact,
\* or one per point).
KwArgs(n) ==
  {<< >>} \cup {[width |-> w] : w \in SeqsOf({1, 2}, IF n < 2 THEN 0 ELSE n - 2, n)}

IntensityArgs ==
  UNION {{[cl |-> c, kwargs |-> k] : k \in KwArgs(Len(c))} :
           c \in SeqsOf(ContourPts, 1, MaxPoly)}

\* straightenPharynx's arguments: spans whose samples are integers.
StraightenArgs ==
  {a \in [xstart : TValues, xend : TValues, poptX : Polys, poptY : Polys,
          width : 1..MaxWidth, nPts : 1..MaxNPts] :
     a.nPts = 1 \/ (a.xend - a.xstart) % (a.nPts - 1) = 0}

WidthArgs ==
  {[poptX |-> px, poptY |-> py, xs |-> t, contour |-> c] :
     px \in Polys, py \in Polys,
     t \in SeqsOf(TValues, 1, MaxXs), c \in SeqsOf(ContourPts, 1, MaxContour)}

Init ==
  /\ pc = "call"
  /\ out = [status |-> "none"]
  /\ \/ fn = "sortSkeleton" /\ args \in SkeletonArgs
     \/ fn = "widthPharynx" /\ args \in WidthArgs
     \/ fn = "cropcenterline" /\ args \in CropArgs
     \/ fn = "intensityAlongCenterline" /\ args \in IntensityArgs
     \/ fn = "straightenPharynx" /\ args \in StraightenArgs

Next ==
  \/ SortSkeleton
  \/ NormalVecCl
  \/ WidthPharynx
  \/ ScalarWidth
  \/ CropCenterline
  \/ IntensityAlongCenterline
  \/ StraightenPharynx

Spec == Init /\ [][Next]_vars


\* ------------------------------------------------------------------ claims

\* The tangent of the claims: (c1x + 2*c2x*t, c1y + 2*c2y*t).
Tangent(poptX, poptY, t) ==
  <<poptX[2] + 2 * poptX[3] * t, poptY[2] + 2 * poptY[3] * t>>

NormalsDone == fn = "widthPharynx" /\ pc # "call"
WidthsDone == fn = "widthPharynx" /\ pc \in {"widths", "done"}

\* C4: whenever the tangent is the zero vector at some supplied t,
\* normalVecCl reports DegenerateNormalError and returns no NaN vector.
C4_ZeroTangentReported ==
  (NormalsDone /\ pc = "normals"
     /\ \E k \in 1..Len(args.xs) :
          Tangent(args.poptX, args.poptY, args.xs[k]) = <<0, 0>>)
  => (out.status = "raised" /\ out.error = "DegenerateNormalError")

\* C10: normalVecCl returns one vector per supplied t, in the order of the
\* t, and where the tangent (dx, dy) is not zero the vector is a positive
\* multiple of (-dy, dx), so its dot product with the tangent is 0.
C10_NormalOrthogonal ==
  NormalsDone =>
    /\ Len(out.dCl) = Len(args.xs)
    /\ \A k \in 1..Len(args.xs) :
         LET tg == Tangent(args.poptX, args.poptY, args.xs[k])
             v == out.dCl[k]
         IN  tg # <<0, 0>> =>
               /\ v # NaN
               /\ v.n2 > 0
               /\ v.x * tg[1] + v.y * tg[2] = 0
               /\ v.y * tg[1] - v.x * tg[2] > 0

\* C10's case: two different parameter values whose tangents are not zero
\* and point in different directions, so the order of the output shows.
C10_Witness ==
  /\ NormalsDone /\ pc = "normals"
  /\ Len(args.xs) = 2
  /\ Tangent(args.poptX, args.poptY, args.xs[1]) # <<0, 0>>
  /\ Tangent(args.poptX, args.poptY, args.xs[2]) # <<0, 0>>
  /\ Tangent(args.poptX, args.poptY, args.xs[1]) # Tangent(args.poptX, args.poptY, args.xs[2])
  /\ out.dCl[1] # out.dCl[2]

\* c is the lowest index of col attaining its minimum (its maximum with
\* wantMax); numpy's minimum of a column holding NaN is NaN.
IsFirstExtremum(col, c, wantMax) ==
  IF \E i \in 1..Len(col) : col[i] = NaN
  THEN col[c] = NaN /\ \A i \in 1..(c - 1) : col[i] # NaN
  ELSE /\ \A i \in 1..Len(col) :
            ~(IF wantMax THEN Less(col[c], col[i]) ELSE Less(col[i], col[c]))
       /\ \A i \in 1..(c - 1) :
            IF wantMax THEN Less(col[i], col[c]) ELSE Less(col[c], col[i])

\* C7: for every centerline point j the segment is (contour[c1],
\* contour[c2]), c1 the lowest contour index attaining the minimum score of
\* j and c2 the lowest attaining the maximum.
C7_FirstExtremumSegment ==
  WidthsDone =>
    /\ Len(out.widths) = Len(out.cl)
    /\ \A j \in 1..Len(out.cl) :
         LET col == Angles(out.cl, args.contour, out.dCl, j)
         IN  \E c1, c2 \in 1..Len(args.contour) :
               /\ IsFirstExtremum(col, c1, FALSE)
               /\ IsFirstExtremum(col, c2, TRUE)
               /\ out.widths[j] = <<args.contour[c1], args.contour[c2]>>

\* C7's case: two different contour points tie for the minimum score of a
\* centerline point, and the segment starts at the first of them.
C7_Witness ==
  /\ WidthsDone
  /\ \E j \in 1..Len(out.cl) :
       LET col == Angles(out.cl, args.contour, out.dCl, j)
       IN  /\ \A i \in 1..Len(col) : col[i] # NaN
           /\ \E i1, i2 \in 1..Len(col) :
                /\ i1 < i2
                /\ args.contour[i1] # args.contour[i2]
                /\ IsFirstExtremum(col, i1, FALSE)
                /\ ~Less(col[i1], col[i2])
                /\ out.widths[j][1] = args.contour[i1]

\* The width search of centerline point j has no two distinct valid
\* crossing points: a score is NaN, or every contour point ties.
DegenerateWidth(j) ==
  LET col == Angles(out.cl, args.contour, out.dCl, j)
  IN  \/ \E i \in 1..Len(col) : col[i] = NaN
      \/ \A i, k \in 1..Len(col) : ~Less(col[i], col[k])

\* C8: handed unit normals, widthPharynx fails with DegenerateWidthError
\* whenever the width search of some centerline point is degenerate.
C8_DegenerateWidthReported ==
  (WidthsDone /\ pc = "widths"
     /\ \A k \in 1..Len(out.dCl) : out.dCl[k] # NaN
     /\ \E j \in 1..Len(out.cl) : DegenerateWidth(j))
  => (out.status = "raised" /\ out.error = "DegenerateWidthError")

\* (b, a) for every segment (a, b)
SwapEnds(widths) == [j \in 1..Len(widths) |-> <<widths[j][2], widths[j][1]>>]

\* C5: scalarWidth returns one value per segment; each is >= 0 (a square
\* root that exists), equals the value of the swapped segment, and is 0
\* exactly when the two endpoints are equal.
C5_ScalarWidthSymmetric ==
  (fn = "widthPharynx" /\ pc = "done") =>
    /\ Len(out.swidths) = Len(out.widths)
    /\ \A j \in 1..Len(out.widths) :
         /\ Len(out.swidths[j]) = 1
         /\ out.swidths[j][1] # NaN
         /\ out.swidths[j][1].sqrtOf >= 0
         /\ out.swidths[j] = scalarWidth(SwapEnds(out.widths))[j]
         /\ (out.swidths[j][1] = Sqrt(0)) <=> (out.widths[j][1] = out.widths[j][2])

\* C5's case: a segment with two different endpoints and one with equal
\* endpoints have been measured.
C5_Witness ==
  /\ fn = "widthPharynx" /\ pc = "done"
  /\ \E j \in 1..Len(out.widths) :
       out.widths[j][1] # out.widths[j][2] /\ out.swidths[j][1].sqrtOf > 0
  /\ \E j \in 1..Len(out.widths) :
       out.widths[j][1] = out.widths[j][2] /\ out.swidths[j][1] = Sqrt(0)

CropDone == fn = "cropcenterline" /\ pc = "done"

\* The 100 samples of the range [-0.25*nP, 1.25*nP], as numerators over 396:
\* sample i is -0.25*nP + i*1.5*nP/99.
RangeSample(nP, i) == -99 * nP + i * 6 * nP
RangeSamples(nP) == {RangeSample(nP, i) : i \in 0..99}

\* C3 as stated: cropcenterline returns two members of the 100 samples that
\* differ, also for nP = 0.
C3_DistinctSamples ==
  CropDone =>
    /\ out.tStart \in RangeSamples(args.nP)
    /\ out.tEnd \in RangeSamples(args.nP)
    /\ out.tStart # out.tEnd

\* C3 amended: cropcenterline returns two members of the 100 samples; they
\* differ exactly when nP is not 0 (for nP = 0 both are 0).
C3_DistinctUnlessEmpty ==
  CropDone =>
    /\ out.tStart \in RangeSamples(args.nP)
    /\ out.tEnd \in RangeSamples(args.nP)
    /\ (out.tStart # out.tEnd) <=> (args.nP # 0)
    /\ args.nP = 0 => (out.tStart = 0 /\ out.tEnd = 0)

\* C3's case: cropcenterline has returned for nP = 0, where all samples
\* coincide.
C3_Witness == CropDone /\ args.nP = 0 /\ out.tStart = out.tEnd

\* The minimum squared distance from sample i to any contour point.
SampleDist(i) ==
  LET ds == {DistClC(args.poptX, args.poptY, args.contour, args.nP, c, i) :
               c \in 1..Len(args.contour)}
  IN  CHOOSE v \in ds : \A w \in ds : ~BigLess(w, v)

\* C9: tStart is the parameter of a sample nearest to the contour and tEnd
\* the parameter of a nearest one among the other samples.
C9_TwoNearestSamples ==
  CropDone =>
    \E start \in {i \in 0..99 : RangeSample(args.nP, i) = out.tStart} :
      \E end \in {i \in 0..99 : RangeSample(args.nP, i) = out.tEnd} :
        /\ start # end
        /\ LET ds == SampleDist(start)
               de == SampleDist(end)
           IN  \A k \in 0..99 :
                 LET dk == SampleDist(k)
                 IN  ~BigLess(dk, ds) /\ (k # start => ~BigLess(dk, de))

\* C9's case: the nearest sample is strictly nearer than the second nearest
\* one and lies after it, so the returned pair is in decreasing order.
C9_Witness ==
  /\ CropDone /\ args.nP > 0
  /\ out.tStart > out.tEnd
  /\ \E start, end \in 0..99 :
       /\ RangeSample(args.nP, start) = out.tStart
       /\ RangeSample(args.nP, end) = out.tEnd
       /\ BigLess(SampleDist(start), SampleDist(end))

\* C2: sortSkeleton on a skeleton with no true pixel fails with
\* EmptySkeletonError and returns no ordering.
C2_EmptySkeletonError ==
  (fn = "sortSkeleton" /\ pc = "done" /\ args.skeleton = {})
  => (out.status = "raised" /\ out.error = "EmptySkeletonError")

IntensityDone == fn = "intensityAlongCenterline" /\ pc = "done"

\* The line width of segment i: w[i] when a width sequence is supplied,
\* else 1.
SegmentWidth(i) ==
  IF "width" \in DOMAIN args.kwargs THEN args.kwargs.width[i] ELSE 1

\* The profile of segment i, from point i to point i+1.
SegmentProfile(i) == profile_line(args.cl[i], args.cl[i + 1], SegmentWidth(i))

\* The polyline has n >= 2 points and, when a width sequence is supplied, a
\* width for each of its n-1 segments.
IntensityInputsValid ==
  /\ Len(args.cl) >= 2
  /\ "width" \in DOMAIN args.kwargs => Len(args.kwargs.width) >= Len(args.cl) - 1

\* C6: for a polyline of n >= 2 points the result is the in-order
\* concatenation of the n-1 segment profiles: its length is the sum of their
\* lengths, and the samples of segment i follow those of the segments before.
C6_ConcatenatedProfiles ==
  (IntensityDone /\ IntensityInputsValid) =>
    LET n == Len(args.cl)
        lens == [i \in 1..(n - 1) |-> Len(SegmentProfile(i))]
    IN  /\ out.status = "returned"
        /\ Len(out.profile) = SumTo(lens, n - 1)
        /\ \A i \in 1..(n - 1) : \A k \in 1..lens[i] :
             out.profile[SumTo(lens, i - 1) + k] = SegmentProfile(i)[k]

\* C6's case: a 3-point polyline with two different segment widths; the
\* joint is sampled at the end of the first segment and again at the start
\* of the second.
C6_Witness ==
  /\ IntensityDone /\ IntensityInputsValid
  /\ Len(args.cl) = 3
  /\ "width" \in DOMAIN args.kwargs
  /\ args.kwargs.width[1] # args.kwargs.width[2]
  /\ args.cl[1] # args.cl[2] /\ args.cl[2] # args.cl[3]
  /\ out.status = "returned"
  /\ LET l1 == Len(SegmentProfile(1))
     IN  /\ out.profile[l1].at = <<args.cl[2][1] * out.profile[l1].den,
                                   args.cl[2][2] * out.profile[l1].den>>
         /\ out.profile[l1 + 1].at = <<args.cl[2][1] * out.profile[l1 + 1].den,
                                       args.cl[2][2] * out.profile[l1 + 1].den>>

StraightenReturned ==
  fn = "straightenPharynx" /\ pc = "done" /\ out.status = "returned"

\* The shape of a 2-D array with at least one row, all rows equally long.
Shape(a) == <<Len(a), Len(a[1])>>
IsRectangular(a) == \A j \in 1..Len(a) : Len(a[j]) = Len(a[1])

=============================================================================
